---- MODULE Spec2Model ----
(***************************************************************************)
(* mini-kv: an append-only key-value log with a length-prefixed, CRC-32    *)
(* checksummed record codec (record.rs), an engine with three sync         *)
(* policies and a recovery scan (engine.rs), and the crash-test protocol   *)
(* between a writer process and an observer (bin/crash_writer.rs,          *)
(* bin/crash_test.rs).                                                     *)
(*                                                                         *)
(* Bytes are the naturals 0..255, byte strings are sequences of bytes,     *)
(* file offsets are 0-based as in the source.                              *)
(***************************************************************************)
EXTENDS Integers, Sequences, FiniteSets, TLC

(***************************************************************************)
(* Bounds of the model.                                                    *)
(***************************************************************************)
\* put calls made in one history of the log (all engine instances together)
MaxPuts == 2
\* largest N of the Batch(N) policies an engine is opened with
MaxBatch == 2
\* TOTAL_WRITES of crash_writer.rs and crash_test.rs (10_000 there)
TOTAL_WRITES == 3
\* the interval of the Periodic policy of the crash test, in clock ticks
Period == 1
\* ticks of the clock in one run of the crash writer
MaxNow == 2
\* largest D of the Periodic(D) policies an engine is opened with, in ticks
MaxPeriod == 2
\* ticks of the clock in one history under Periodic(D)
MaxTime == 4
\* put calls made in one history under Periodic(D)
MaxTimedPuts == 3
\* the puts after which the crash writer is to have slept again (10 in the
\* spec, for 10_000 puts)
SleepEvery == 2
\* put calls made in one history in which the bytes of failed writes are noted
MaxTornPuts == 3
\* MAX_KEY_LEN and MAX_VAL_LEN scaled: the longest key and the longest value
\* within the caps, where records of sizes around the caps are put. Nothing
\* in record.rs or engine.rs reads the two constants.
KeyCap == 2
ValCap == 3
\* most bytes of a frame that a failed write or a power loss leaves behind it
MaxTorn == 1

(***************************************************************************)
(* record.rs: the codec.                                                   *)
(***************************************************************************)
MAX_KEY_LEN == 1024 * 1024
MAX_VAL_LEN == 1024 * 1024 * 10
CRC_SIZE == 4

\* a ^ b on naturals, bit by bit
RECURSIVE Xor(_, _)
Xor(a, b) ==
    IF a = 0 THEN b
    ELSE IF b = 0 THEN a
    ELSE ((a + b) % 2) + 2 * Xor(a \div 2, b \div 2)

\* One step of the reflected CRC-32 (IEEE, polynomial 0xEDB88320) on a 32-bit
\* value kept as two 16-bit halves <<hi, lo>>, since TLC's integers
\* are 32-bit signed: c = (c & 1) ? (c >> 1) ^ POLY : c >> 1.
CrcShift(c) ==
    LET hi == c[1] \div 2
        lo == (c[2] \div 2) + (c[1] % 2) * 32768
    IN  IF c[2] % 2 = 1 THEN <<Xor(hi, 60856), Xor(lo, 33568)>> ELSE <<hi, lo>>

RECURSIVE CrcShiftN(_, _)
CrcShiftN(c, n) == IF n = 0 THEN c ELSE CrcShiftN(CrcShift(c), n - 1)

\* The byte table of CRC-32, entries lo..hi, each entry as its 4 little-endian
\* bytes; entry i of the whole table is at place i + 1.
RECURSIVE CrcEntries(_, _)
CrcEntries(lo, hi) ==
    IF lo = hi
    THEN LET c == CrcShiftN(<<0, lo>>, 8)
         IN  << <<c[2] % 256, c[2] \div 256, c[1] % 256, c[1] \div 256>> >>
    ELSE LET mid == (lo + hi) \div 2
         IN  CrcEntries(lo, mid) \o CrcEntries(mid + 1, hi)

CrcTable == CrcEntries(0, 255)

\* crc = table[(crc ^ byte) & 0xFF] ^ (crc >> 8), crc as 4 little-endian bytes
CrcUpdate(crc, byte) ==
    LET t == CrcTable[Xor(crc[1], byte) + 1]
    IN  <<Xor(t[1], crc[2]), Xor(t[2], crc[3]), Xor(t[3], crc[4]), t[4]>>

\* the loop over bytes[lo..hi]: the value after the first half is computed,
\* then the second half goes on from it
RECURSIVE CrcFold(_, _, _, _)
CrcFold(crc, bytes, lo, hi) ==
    IF lo > hi THEN crc
    ELSE IF lo = hi THEN CrcUpdate(crc, bytes[lo])
    ELSE LET half == CrcFold(crc, bytes, lo, (lo + hi) \div 2)
         IN  IF Len(half) = 4
             THEN CrcFold(half, bytes, (lo + hi) \div 2 + 1, hi)
             ELSE half

\* crc32fast::hash(bytes), as the 4 bytes of crc.to_le_bytes():
\* initial value 0xFFFFFFFF, final complement.
Crc32LE(bytes) ==
    LET c == CrcFold(<<255, 255, 255, 255>>, bytes, 1, Len(bytes))
    IN  <<255 - c[1], 255 - c[2], 255 - c[3], 255 - c[4]>>

\* (n as u32).to_be_bytes(): the bytes in the other order
BE32(n) ==
    <<(n \div 16777216) % 256, (n \div 65536) % 256, (n \div 256) % 256, n % 256>>

\* (n as u32).to_le_bytes()
LE32(n) ==
    <<n % 256, (n \div 256) % 256, (n \div 65536) % 256, (n \div 16777216) % 256>>

\* u32::from_le_bytes(b) as usize. A length of 2^24 or more stands for itself
\* as 2^24: it is only ever compared with buffer lengths, which are far below.
FromLE32(b) ==
    IF b[4] # 0 THEN 16777216 ELSE b[1] + 256 * b[2] + 65536 * b[3]

\* Record::encode
encode(key, value) ==
    LET body == LE32(Len(key)) \o LE32(Len(value)) \o key \o value
    IN  body \o Crc32LE(body)

\* Record::decode: [ok |-> TRUE, key, value, size] or [ok |-> FALSE, err]
decode(buf) ==
    IF Len(buf) < 12 THEN [ok |-> FALSE, err |-> "Buffer too short"]
    ELSE
        LET key_len == FromLE32(SubSeq(buf, 1, 4))
            val_len == FromLE32(SubSeq(buf, 5, 8))
            total_len == 8 + key_len + val_len + CRC_SIZE
        IN  IF Len(buf) < total_len THEN [ok |-> FALSE, err |-> "Incomplete buffer"]
            ELSE
                LET data_end == total_len - CRC_SIZE
                    expected_crc == SubSeq(buf, data_end + 1, total_len)
                    actual_crc == Crc32LE(SubSeq(buf, 1, data_end))
                IN  IF expected_crc # actual_crc
                    THEN [ok |-> FALSE, err |-> "CRC mismatch"]
                    ELSE [ok |-> TRUE,
                          key |-> SubSeq(buf, 9, 8 + key_len),
                          value |-> SubSeq(buf, 9 + key_len, 8 + key_len + val_len),
                          size |-> total_len]

(***************************************************************************)
(* The operating system under the engine.                                  *)
(***************************************************************************)
Zeros(n) == [i \in 1..n |-> 0]

\* File::write_all(bytes) on a handle at offset cur of a file holding f (the
\* handle is not in append mode): a write past the end leaves a gap of zeros.
WriteAt(f, cur, bytes) ==
    LET padded == IF cur > Len(f) THEN f \o Zeros(cur - Len(f)) ELSE f
    IN  SubSeq(padded, 1, cur) \o bytes
            \o SubSeq(padded, cur + Len(bytes) + 1, Len(padded))

\* format!("{}", n): the decimal ASCII digits of n
RECURSIVE Dec(_)
Dec(n) == IF n < 10 THEN <<48 + n>> ELSE Dec(n \div 10) \o <<48 + (n % 10)>>

\* str::trim: without the white space at both ends
RECURSIVE Trim(_)
Trim(b) ==
    IF b = <<>> THEN b
    ELSE IF b[1] \in {9, 10, 11, 12, 13, 32} THEN Trim(Tail(b))
    ELSE IF b[Len(b)] \in {9, 10, 11, 12, 13, 32} THEN Trim(SubSeq(b, 1, Len(b) - 1))
    ELSE b

\* the digits of b as a number, acc being the value of the digits before them
RECURSIVE ParseDigits(_, _)
ParseDigits(b, acc) ==
    IF b = <<>> THEN [ok |-> TRUE, val |-> acc]
    ELSE IF b[1] \in 48..57 THEN ParseDigits(Tail(b), 10 * acc + (b[1] - 48))
    ELSE [ok |-> FALSE, val |-> 0]

\* str::parse::<usize>: Err on the empty string and on anything but digits
\* after an optional +
ParseUsize(b) ==
    IF b = <<>> \/ b = <<43>> THEN [ok |-> FALSE, val |-> 0]
    ELSE IF b[1] = 43 THEN ParseDigits(Tail(b), 0)
    ELSE ParseDigits(b, 0)

(***************************************************************************)
(* engine.rs: the engine.                                                  *)
(***************************************************************************)
Always == [kind |-> "Always", arg |-> 0]
Batch(n) == [kind |-> "Batch", arg |-> n]
Periodic(d) == [kind |-> "Periodic", arg |-> d]
CountModes == {Always} \cup {Batch(n) : n \in 1..MaxBatch}

\* HashMap::insert on the index, a function from keys to offsets
IndexInsert(idx, key, off) ==
    [k \in (DOMAIN idx) \cup {key} |-> IF k = key THEN off ELSE idx[k]]

VARIABLES
    file,           \* bytes of the log file as the OS serves them
    stable,         \* bytes of the log file that a power loss cannot take
    cursor,         \* offset of the engine's file handle
    progress,       \* bytes of durable_progress.txt
    now,            \* the clock, in ticks since the engine was opened
    opened,         \* whether an engine instance exists on the path
    index, pos, sync_mode, write_count, last_sync,
    logical_index, durable_index,
    progress_file,  \* Option<File>: TRUE for Some
    ret,            \* what the last call returned: "Ok" or "Err"
    synced,         \* whether a sync returned success inside the last call
    nputs,          \* put calls so far, in the whole history
    acked,          \* keys the engine has: recovered at open, or put with Ok since
    covered,        \* keys acked before a sync that returned success, ever
    base,           \* <<logical_index at open, successful puts since>> while the engine
                    \* has only made successful puts since open, <<>> otherwise
    unslept,        \* crash_writer: puts that returned since it last slept, or started
    given,          \* what the log was made of, where a log is given: records,
                    \* the frame damaged among them and how, the bytes after them
    wpc, wi, wk,    \* crash_writer: where it is, its loop's i, bytes of the frame written;
                    \* wk is also the bytes that failed writes of put left, where noted
    opc, target,    \* crash_test: where run_crash_test is, its crash_point
    durable_at,     \* crash_test: what wait_for_durable_progress returned
    recovered_n,    \* crash_test: what verify_data returned
    killed_at       \* where the writer was when it was killed

evars == <<file, stable, cursor, progress, now, index, pos, sync_mode, write_count,
           last_sync, logical_index, durable_index, progress_file, ret, synced>>
hvars == <<opened, nputs, acked, covered, base, unslept>>
xvars == <<given, wpc, wi, wk, opc, target, durable_at, recovered_n, killed_at>>
vars == <<evars, hvars, xvars>>

\* The engine and the files it works on, as one value: the self of the methods.
Self ==
    [file |-> file, stable |-> stable, cursor |-> cursor, progress |-> progress,
     now |-> now, index |-> index, pos |-> pos, sync_mode |-> sync_mode,
     write_count |-> write_count, last_sync |-> last_sync,
     logical_index |-> logical_index, durable_index |-> durable_index,
     progress_file |-> progress_file, ret |-> ret, synced |-> synced]

Becomes(e) ==
    /\ file' = e.file /\ stable' = e.stable /\ cursor' = e.cursor
    /\ progress' = e.progress /\ now' = e.now /\ index' = e.index /\ pos' = e.pos
    /\ sync_mode' = e.sync_mode /\ write_count' = e.write_count
    /\ last_sync' = e.last_sync /\ logical_index' = e.logical_index
    /\ durable_index' = e.durable_index /\ progress_file' = e.progress_file
    /\ ret' = e.ret /\ synced' = e.synced

\* a publication of the index of the next record, one past durable_index
update_progress_file_next(e, io) ==
    IF e.progress_file
    THEN IF io = "err_publish"
         THEN [e EXCEPT !.progress = <<>>, !.ret = "Err"]
         ELSE [e EXCEPT !.progress = Dec(e.durable_index + 1), !.ret = "Ok"]
    ELSE [e EXCEPT !.ret = "Ok"]

\* Engine::update_progress_file; io = "err_publish" fails the write! after set_len(0)
update_progress_file(e, io) ==
    IF e.progress_file
    THEN IF io = "err_publish"
         THEN [e EXCEPT !.progress = <<>>, !.ret = "Err"]
         ELSE [e EXCEPT !.progress = Dec(e.durable_index), !.ret = "Ok"]
    ELSE [e EXCEPT !.ret = "Ok"]

\* counters that take durable_index one past logical_index
sync_counters_ahead(e) ==
    [e EXCEPT !.stable = e.file,
              !.durable_index = e.logical_index + 1,
              !.write_count = 0,
              !.last_sync = e.now]

\* counters of a sync that leaves the Batch counter and last_sync alone
sync_counters_no_reset(e) ==
    [e EXCEPT !.stable = e.file,
              !.durable_index = e.logical_index]

\* Engine::sync after file.sync_data() returned Ok: the counters
sync_counters(e) ==
    [e EXCEPT !.stable = e.file,
              !.durable_index = e.logical_index,
              !.write_count = 0,
              !.last_sync = e.now]

\* the Result of Engine::sync, noted for the history
sync_result(e) == [e EXCEPT !.synced = (e.ret = "Ok")]

\* Engine::sync; io = "err_data" fails file.sync_data()
sync(e, io) ==
    IF io = "err_data" THEN [e EXCEPT !.ret = "Err"]
    ELSE sync_result(update_progress_file(sync_counters(e), io))

\* a recovery loop that steps over a byte where no frame decodes and goes on
RECURSIVE RecoverScanResync(_, _, _, _)
RecoverScanResync(buf, curr_pos, count, idx) ==
    IF curr_pos < Len(buf)
    THEN LET r == decode(SubSeq(buf, curr_pos + 1, Len(buf)))
         IN  IF r.ok
             THEN RecoverScanResync(buf, curr_pos + r.size, count + 1,
                                    IndexInsert(idx, r.key, curr_pos))
             ELSE RecoverScanResync(buf, curr_pos + 1, count, idx)
    ELSE [index |-> idx, curr_pos |-> curr_pos, count |-> count]

\* the loop of Engine::recover over the bytes read
RECURSIVE RecoverScan(_, _, _, _)
RecoverScan(buf, curr_pos, count, idx) ==
    IF curr_pos < Len(buf)
    THEN LET r == decode(SubSeq(buf, curr_pos + 1, Len(buf)))
         IN  IF r.ok
             THEN RecoverScan(buf, curr_pos + r.size, count + 1,
                              IndexInsert(idx, r.key, curr_pos))
             ELSE [index |-> idx, curr_pos |-> curr_pos, count |-> count]
    ELSE [index |-> idx, curr_pos |-> curr_pos, count |-> count]

\* recover without its line 124: logical_index keeps the 0 of the new engine
recovered_no_logical(e, s) ==
    [e EXCEPT !.cursor = Len(e.file),
              !.index = s.index,
              !.pos = s.curr_pos,
              !.durable_index = s.count,
              !.file = IF s.curr_pos < Len(e.file) THEN SubSeq(e.file, 1, s.curr_pos)
                       ELSE e.file,
              !.ret = "Ok"]

\* recover without its lines 128-130: the file keeps its length
recovered_no_truncate(e, s) ==
    [e EXCEPT !.cursor = Len(e.file),
              !.index = s.index,
              !.pos = s.curr_pos,
              !.logical_index = s.count,
              !.durable_index = s.count,
              !.ret = "Ok"]

\* Engine::recover after the scan s of the bytes read: read_to_end leaves the
\* handle at the end of what it read, and set_len does not move it.
recovered(e, s) ==
    [e EXCEPT !.cursor = Len(e.file),
              !.index = s.index,
              !.pos = s.curr_pos,
              !.logical_index = s.count,
              !.durable_index = s.count,
              !.file = IF s.curr_pos < Len(e.file) THEN SubSeq(e.file, 1, s.curr_pos)
                       ELSE e.file,
              !.ret = "Ok"]

\* Engine::recover
recover(e) == recovered(e, RecoverScan(e.file, 0, 0, e.index))

\* the Engine value that with_config builds before it recovers
new_engine(e, mode) ==
    [e EXCEPT !.index = <<>>, !.pos = 0, !.sync_mode = mode,
              !.write_count = 0, !.now = 0, !.last_sync = 0,
              !.logical_index = 0, !.durable_index = 0,
              !.progress_file = FALSE, !.synced = FALSE]

\* with_config when CRASH_TEST is set: File::create and the first publication
enable_progress(e) ==
    update_progress_file([e EXCEPT !.progress_file = TRUE, !.progress = <<>>], "ok")

\* Engine::with_config on the file of the path, with CRASH_TEST set or not
with_config(e, mode, crash_test) ==
    IF crash_test
    THEN enable_progress(recover(new_engine(e, mode)))
    ELSE recover(new_engine(e, mode))

\* a sync decision that compares the Batch counter with > for >=
should_sync_gt(e) ==
    CASE e.sync_mode.kind = "Always" -> TRUE
      [] e.sync_mode.kind = "Batch" -> e.write_count > e.sync_mode.arg
      [] e.sync_mode.kind = "Periodic" -> e.now - e.last_sync >= e.sync_mode.arg

\* a sync decision that asks for more than D to have elapsed
should_sync_late(e) ==
    CASE e.sync_mode.kind = "Always" -> TRUE
      [] e.sync_mode.kind = "Batch" -> e.write_count >= e.sync_mode.arg
      [] e.sync_mode.kind = "Periodic" -> e.now - e.last_sync > e.sync_mode.arg

\* the sync decision of Engine::put, after the Batch counter was incremented
should_sync(e) ==
    CASE e.sync_mode.kind = "Always" -> TRUE
      [] e.sync_mode.kind = "Batch" -> e.write_count >= e.sync_mode.arg
      [] e.sync_mode.kind = "Periodic" -> e.now - e.last_sync >= e.sync_mode.arg

\* Engine::put, step 1: write_all, of which n bytes reach the file
write_all(e, encoded, n) ==
    [e EXCEPT !.file = WriteAt(e.file, e.cursor, SubSeq(encoded, 1, n)),
              !.cursor = e.cursor + n,
              !.ret = IF n = Len(encoded) THEN "Ok" ELSE "Err",
              !.synced = FALSE]

\* a put that counts the record and leaves the Batch counter alone
count_write_uncounted(e) ==
    [e EXCEPT !.logical_index = e.logical_index + 1]

\* Engine::put after the write returned Ok: logical_index += 1, and the Batch
\* counter's increment
count_write(e) ==
    [e EXCEPT !.logical_index = e.logical_index + 1,
              !.write_count = IF e.sync_mode.kind = "Batch"
                              THEN e.write_count + 1 ELSE e.write_count]

\* Engine::put, step 2: the sync the policy asks for
policy_sync(e, io) == IF should_sync(e) THEN sync(e, io) ELSE e

\* Engine::put, step 3: the index and the write position, unless sync()? returned
bind(e, key, current_record_pos, n) ==
    IF e.ret = "Err" THEN e
    ELSE [e EXCEPT !.index = IndexInsert(e.index, key, current_record_pos),
                   !.pos = e.pos + n]

\* a put that counts the record before it knows that write_all returned Ok
put_encoded_counts_first(e, key, encoded, io) ==
    IF io.write_err
    THEN count_write(write_all(e, encoded, io.torn))
    ELSE bind(policy_sync(count_write(write_all(e, encoded, Len(encoded))), io.sync),
              key, e.pos, Len(encoded))

\* Engine::put on the encoded record
put_encoded(e, key, encoded, io) ==
    IF io.write_err
    THEN write_all(e, encoded, io.torn)
    ELSE bind(policy_sync(count_write(write_all(e, encoded, Len(encoded))), io.sync),
              key, e.pos, Len(encoded))

\* Engine::put; io.write_err fails write_all after io.torn bytes, io.sync is
\* the outcome of the sync, if the policy asks for one
put(e, key, value, io) == put_encoded(e, key, encode(key, value), io)

\* Engine::contains_key
contains_key(key) == key \in DOMAIN index

(***************************************************************************)
(* The engine's life on one path: opened, used, dropped or lost to a power *)
(* failure, and opened again. The policies here are Always and Batch(N),   *)
(* and CRASH_TEST is not set.                                              *)
(***************************************************************************)
Keys == {<<97>>, <<98, 98>>}
Values == {<<49>>}
SyncIo == {"ok", "err_data"}
PutIo ==
    [write_err : {FALSE}, torn : {0}, sync : SyncIo]
        \cup [write_err : {TRUE}, torn : 1..MaxTorn, sync : {"ok"}]

\* an empty path, no engine
Fresh ==
    /\ file = <<>> /\ stable = <<>> /\ cursor = 0 /\ progress = <<>> /\ now = 0
    /\ opened = FALSE
    /\ index = <<>> /\ pos = 0 /\ sync_mode = Always /\ write_count = 0
    /\ last_sync = 0 /\ logical_index = 0 /\ durable_index = 0
    /\ progress_file = FALSE /\ ret = "Ok" /\ synced = FALSE
    /\ nputs = 0 /\ acked = {} /\ covered = {} /\ base = <<>> /\ unslept = 0

\* no log is given, and no crash test runs
NoExtras ==
    /\ given = <<>>
    /\ wpc = "none" /\ wi = 0 /\ wk = 0 /\ opc = "none" /\ target = 0
    /\ durable_at = 0 /\ recovered_n = 0 /\ killed_at = "none"

Init == Fresh /\ NoExtras

\* Engine::with_sync on the path, in a process with CRASH_TEST set or not
OpenWith(mode, crash_test) ==
    /\ ~opened
    /\ Becomes(with_config(Self, mode, crash_test))
    /\ base' = <<logical_index', 0>>
    /\ acked' = DOMAIN index'
    /\ opened' = TRUE
    /\ UNCHANGED <<nputs, covered, unslept, xvars>>

Open(mode) == OpenWith(mode, FALSE)

\* a call of put on the engine, and what the history notes of it
PutBody(key, value, io) ==
    /\ opened
    /\ Becomes(put(Self, key, value, io))
    /\ acked' = IF ret' = "Ok" THEN acked \cup {key} ELSE acked
    /\ covered' = IF synced' THEN covered \cup acked ELSE covered
    /\ base' = IF ret' = "Ok" /\ base # <<>> THEN <<base[1], base[2] + 1>> ELSE <<>>
    /\ nputs' = nputs + 1
    /\ UNCHANGED <<opened, unslept>>

PutCall(key, value, io) == PutBody(key, value, io) /\ UNCHANGED xvars

Put(key, value, io) == nputs < MaxPuts /\ PutCall(key, value, io)

Sync(io) ==
    /\ opened
    /\ Becomes(sync([Self EXCEPT !.synced = FALSE], io))
    /\ covered' = IF synced' THEN covered \cup acked ELSE covered
    /\ base' = <<>>
    /\ UNCHANGED <<opened, nputs, acked, unslept, xvars>>

\* The engine value is dropped: its fields are gone, the file stays. The
\* model keeps in durable_index the value the instance last held.
Dropped ==
    /\ opened' = FALSE
    /\ cursor' = 0 /\ index' = <<>> /\ pos' = 0 /\ sync_mode' = Always
    /\ write_count' = 0 /\ last_sync' = 0 /\ now' = 0 /\ logical_index' = 0
    /\ progress_file' = FALSE /\ ret' = "Ok" /\ synced' = FALSE /\ base' = <<>>
    /\ acked' = {}
    /\ UNCHANGED <<durable_index, progress, nputs, covered, unslept>>

\* The engine is dropped, or its process is killed between two calls: the OS
\* keeps what was written.
Close ==
    /\ opened
    /\ Dropped
    /\ UNCHANGED <<file, stable, xvars>>

\* What a power loss can leave of the file: what was data-synced, and
\* possibly some or all of what was written after.
CrashImages ==
    IF Len(stable) <= Len(file) /\ SubSeq(file, 1, Len(stable)) = stable
    THEN {SubSeq(file, 1, n) : n \in {m \in Len(stable)..Len(file) :
                                        m - Len(stable) <= MaxTorn \/ m = Len(file)}}
    ELSE {stable, file}

Crash(image) ==
    /\ file # stable
    /\ file' = image
    /\ stable' = image
    /\ Dropped
    /\ UNCHANGED xvars

Next ==
    \/ \E mode \in CountModes : Open(mode)
    \/ \E key \in Keys, value \in Values, io \in PutIo : Put(key, value, io)
    \/ \E io \in SyncIo : Sync(io)
    \/ Close
    \/ \E image \in CrashImages : Crash(image)

Spec == Init /\ [][Next]_vars

(***************************************************************************)
(* An engine opened on a given log: frames of records, one of them         *)
(* possibly damaged, followed by bytes that are no frame.                  *)
(***************************************************************************)
\* most records of a given log
MaxRecs == 3

GivenRecords ==
    {[key |-> <<>>, value |-> <<49>>], [key |-> <<97>>, value |-> <<>>],
     [key |-> <<98, 98>>, value |-> <<49>>]}

\* a stretch of a frame that a torn write left at the end
TornFrame(n) == SubSeq(encode(<<99>>, <<50>>), 1, n)

\* bytes after the last frame: none, the first 5 or 13 bytes of a frame, 12
\* zero bytes
Tails == {<<>>, TornFrame(5), TornFrame(13), Zeros(12)}

\* the places of a frame where a byte is damaged: its first length byte, its
\* first byte after the lengths, its last checksum byte
Flips == {"len", "body", "crc"}

FlipAt(frame, flip) ==
    CASE flip = "len" -> 1
      [] flip = "body" -> 9
      [] flip = "crc" -> Len(frame)

Damaged(frame, flip) ==
    [frame EXCEPT ![FlipAt(frame, flip)] = (frame[FlipAt(frame, flip)] + 1) % 256]

GivensOf(recs) ==
    [recs : {recs}, bad : {0}, flip : {"none"}, tail : Tails]
        \cup [recs : {recs}, bad : 1..Len(recs), flip : Flips, tail : Tails]

Givens == UNION {GivensOf(recs) : recs \in UNION {[1..n -> GivenRecords] : n \in 0..MaxRecs}}

\* the bytes of frames i.. of the given log
RECURSIVE GivenFrames(_, _)
GivenFrames(g, i) ==
    IF i > Len(g.recs) THEN <<>>
    ELSE (IF i = g.bad
          THEN Damaged(encode(g.recs[i].key, g.recs[i].value), g.flip)
          ELSE encode(g.recs[i].key, g.recs[i].value))
         \o GivenFrames(g, i + 1)

GivenLog(g) == GivenFrames(g, 1) \o g.tail

\* the given log is at the path, no engine
InitGiven ==
    /\ given \in Givens
    /\ file = GivenLog(given) /\ stable = GivenLog(given)
    /\ cursor = 0 /\ progress = <<>> /\ now = 0
    /\ opened = FALSE
    /\ index = <<>> /\ pos = 0 /\ sync_mode = Always /\ write_count = 0
    /\ last_sync = 0 /\ logical_index = 0 /\ durable_index = 0
    /\ progress_file = FALSE /\ ret = "Ok" /\ synced = FALSE
    /\ nputs = 0 /\ acked = {} /\ covered = {} /\ base = <<>> /\ unslept = 0
    /\ wpc = "none" /\ wi = 0 /\ wk = 0 /\ opc = "none" /\ target = 0
    /\ durable_at = 0 /\ recovered_n = 0 /\ killed_at = "none"

NextGiven ==
    \/ Open(Always)
    \/ Close

SpecGiven == InitGiven /\ [][NextGiven]_vars

(***************************************************************************)
(* Engines opened with Batch(N), one after the other on one path, and a    *)
(* longer run of puts of one record.                                       *)
(***************************************************************************)
\* put calls made in one history under Batch(N)
MaxBatchPuts == 4

BatchPut(io) == nputs < MaxBatchPuts /\ PutCall(<<97>>, <<49>>, io)

NextBatch ==
    \/ \E n \in 1..MaxBatch : Open(Batch(n))
    \/ \E io \in PutIo : BatchPut(io)
    \/ \E io \in SyncIo : Sync(io)
    \/ Close

SpecBatch == Init /\ [][NextBatch]_vars

(***************************************************************************)
(* Engines opened with Periodic(D), and a clock. Instant::now() is the     *)
(* clock's value; a call takes no time.                                    *)
(***************************************************************************)
\* the outcomes of a put where the policies are looked at: Ok, a sync_data
\* that fails, a write that fails after one byte
TimedPutIo ==
    [write_err : {FALSE}, torn : {0}, sync : SyncIo]
        \cup [write_err : {TRUE}, torn : {1}, sync : {"ok"}]

TimedPut(io) == nputs < MaxTimedPuts /\ PutCall(<<97>>, <<49>>, io)

\* time passes between two calls of an engine; only Periodic reads the clock
Tick ==
    /\ opened
    /\ sync_mode.kind = "Periodic"
    /\ now < MaxTime
    /\ Becomes([Self EXCEPT !.now = now + 1])
    /\ UNCHANGED <<hvars, xvars>>

NextPeriodic ==
    \/ \E d \in 1..MaxPeriod : Open(Periodic(d))
    \/ \E io \in TimedPutIo : TimedPut(io)
    \/ \E io \in SyncIo : Sync(io)
    \/ Tick
    \/ Close

SpecPeriodic == Init /\ [][NextPeriodic]_vars

(***************************************************************************)
(* Engines opened with Batch(N) or Periodic(D), a clock, and explicit      *)
(* syncs between the puts.                                                 *)
(***************************************************************************)
PolicyModes == {Batch(n) : n \in 1..MaxBatch} \cup {Periodic(d) : d \in 1..MaxPeriod}

NextPolicy ==
    \/ \E mode \in PolicyModes : Open(mode)
    \/ \E io \in TimedPutIo : TimedPut(io)
    \/ \E io \in SyncIo : Sync(io)
    \/ Tick
    \/ Close

SpecPolicy == Init /\ [][NextPolicy]_vars

(***************************************************************************)
(* Puts of keys and values of the sizes around the caps: empty, at the     *)
(* cap, one byte over it.                                                  *)
(***************************************************************************)
CapKeys == {[i \in 1..n |-> 97] : n \in {0, KeyCap, KeyCap + 1}}
CapValues == {[i \in 1..n |-> 49] : n \in {0, ValCap, ValCap + 1}}

NextCaps ==
    \/ \E mode \in CountModes : Open(mode)
    \/ \E key \in CapKeys, value \in CapValues, io \in PutIo : Put(key, value, io)
    \/ \E io \in SyncIo : Sync(io)
    \/ Close

SpecCaps == Init /\ [][NextCaps]_vars

(***************************************************************************)
(* Engines opened with CRASH_TEST set: every sync publishes durable_index  *)
(* to the progress file, and the publication can fail.                     *)
(***************************************************************************)
SinkIo == {"ok", "err_data", "err_publish"}
SinkPutIo ==
    [write_err : {FALSE}, torn : {0}, sync : SinkIo]
        \cup [write_err : {TRUE}, torn : 1..MaxTorn, sync : {"ok"}]

OpenSink(mode) == OpenWith(mode, TRUE)

NextSink ==
    \/ \E mode \in CountModes : OpenSink(mode)
    \/ \E io \in SinkPutIo : Put(<<97>>, <<49>>, io)
    \/ \E io \in SinkIo : Sync(io)
    \/ Close

SpecSink == Init /\ [][NextSink]_vars

(***************************************************************************)
(* The codec alone: a record is encoded into a buffer, possibly followed   *)
(* by further bytes, and the buffer is decoded. given is the record and    *)
(* the bytes after its frame, file the buffer; the decoded key goes to the *)
(* index at offset 0, as in recover, and the consumed size to pos.         *)
(***************************************************************************)
\* the byte strings of length up to n over two byte values
BytesUpTo(n) == UNION {[1..m -> {0, 255}] : m \in 0..n}

\* the bytes after the frame: none, one byte, the stretches Tails has
CodecRests == Tails \cup {<<7>>}

CodecInputs ==
    {[recs |-> <<[key |-> k, value |-> v]>>, bad |-> 0, flip |-> "none", tail |-> t] :
        k \in BytesUpTo(KeyCap), v \in BytesUpTo(ValCap), t \in CodecRests}

InitCodec ==
    /\ Fresh
    /\ given \in CodecInputs
    /\ wpc = "none" /\ wi = 0 /\ wk = 0 /\ opc = "none" /\ target = 0
    /\ durable_at = 0 /\ recovered_n = 0 /\ killed_at = "none"

\* Record::new(key, value).encode(), and the bytes after it
Encode ==
    /\ file = <<>>
    /\ Becomes([Self EXCEPT !.file = GivenLog(given)])
    /\ UNCHANGED <<hvars, xvars>>

\* the record and the size that Record::decode(&buf) returned, or its error
decoded(e, r) ==
    IF r.ok
    THEN [e EXCEPT !.index = IndexInsert(<<>>, r.key, 0), !.pos = r.size, !.ret = "Ok"]
    ELSE [e EXCEPT !.ret = "Err"]

\* Record::decode(&buf)
Decode ==
    /\ file # <<>>
    /\ pos = 0 /\ ret = "Ok"
    /\ Becomes(decoded(Self, decode(file)))
    /\ UNCHANGED <<hvars, xvars>>

NextCodec ==
    \/ Encode
    \/ Decode

SpecCodec == InitCodec /\ [][NextCodec]_vars

(***************************************************************************)
(* The engine's life on one path without power losses, the bytes that      *)
(* failed writes left being noted in wk.                                   *)
(***************************************************************************)
TornPut(key, value, io) ==
    /\ nputs < MaxTornPuts
    /\ PutBody(key, value, io)
    /\ wk' = IF io.write_err THEN wk + io.torn ELSE wk
    /\ UNCHANGED <<given, wpc, wi, opc, target, durable_at, recovered_n, killed_at>>

NextTorn ==
    \/ \E mode \in CountModes : Open(mode)
    \/ \E key \in Keys, value \in Values, io \in PutIo : TornPut(key, value, io)
    \/ \E io \in SyncIo : Sync(io)
    \/ Close

SpecTorn == Init /\ [][NextTorn]_vars

(***************************************************************************)
(* The crash test: run 0 of run_crash_test. The observer removes the       *)
(* files, spawns crash_writer, polls durable_progress.txt until it reads a *)
(* value >= crash_point, kills the writer and counts what an engine opened *)
(* on the log recovers. The writer takes one step per system call; a kill  *)
(* of the process leaves the files as the calls made so far left them.     *)
(* The engine fields are the writer's until it is gone, then those of the  *)
(* engine verify_data opens.                                               *)
(***************************************************************************)
\* format!("key_{}_{}", run_id, i).into_bytes()
WriterKey(run_id, i) == <<107, 101, 121, 95>> \o Dec(run_id) \o <<95>> \o Dec(i)

\* vec![i as u8; 128]
WriterValue(i) == [j \in 1..128 |-> i % 256]

\* the frame of the put of the loop's i
WriterFrame(i) == encode(WriterKey(0, i), WriterValue(i))

\* what write_all has yet to write of the frame
WriterRest == SubSeq(WriterFrame(wi), wk + 1, Len(WriterFrame(wi)))

\* the policies of crash_test's main, Batch(100) and Periodic(100 ms) scaled
CrashModes == {Always, Batch(MaxBatch), Periodic(Period)}

\* rng.gen_range(2000..8000), scaled to TOTAL_WRITES
CrashPoints == 1..(TOTAL_WRITES - 1)

\* the lengths at which a write of a frame can stop before its end: inside
\* the lengths, and after the first bytes of the key
TornSizes == (1..MaxTorn) \cup {8 + CRC_SIZE + n : n \in 1..MaxTorn}

\* the loop of verify_data from i on
RECURSIVE PrefixCount(_, _)
PrefixCount(idx, i) ==
    IF i < TOTAL_WRITES /\ WriterKey(0, i) \in DOMAIN idx
    THEN PrefixCount(idx, i + 1)
    ELSE i

\* verify_data
verify_data(idx) == PrefixCount(idx, 0)

InitCrashTest ==
    /\ Fresh
    /\ given = <<>>
    /\ wpc = "none" /\ wi = 0 /\ wk = 0 /\ opc = "start" /\ target = 0
    /\ durable_at = 0 /\ recovered_n = 0 /\ killed_at = "none"

\* run_crash_test up to spawn_writer; sync_mode holds the mode argument
Spawn(mode, crash_point) ==
    /\ opc = "start"
    /\ Becomes([Self EXCEPT !.file = <<>>, !.stable = <<>>, !.progress = <<>>,
                            !.sync_mode = mode])
    /\ target' = crash_point
    /\ wpc' = "open"
    /\ opc' = "waiting"
    /\ UNCHANGED <<hvars, given, wi, wk, durable_at, recovered_n, killed_at>>

\* crash_writer: Engine::with_sync with CRASH_TEST set
WriterOpen ==
    /\ wpc = "open"
    /\ Becomes(with_config(Self, sync_mode, TRUE))
    /\ wpc' = "write"
    /\ UNCHANGED <<hvars, given, wi, wk, opc, target, durable_at, recovered_n, killed_at>>

\* the clock of the writer; only Periodic reads it
WriterTick ==
    /\ wpc \notin {"none", "open", "killed", "exited"}
    /\ sync_mode.kind = "Periodic"
    /\ now < MaxNow
    /\ Becomes([Self EXCEPT !.now = now + 1])
    /\ UNCHANGED <<hvars, xvars>>

\* put: a write call inside write_all that takes the first n bytes only
WriterWritePart(n) ==
    /\ wpc = "write"
    /\ wk = 0
    /\ n < Len(WriterFrame(wi))
    /\ Becomes([Self EXCEPT !.file = WriteAt(file, cursor, SubSeq(WriterFrame(wi), 1, n)),
                            !.cursor = cursor + n])
    /\ wk' = n
    /\ UNCHANGED <<hvars, given, wpc, wi, opc, target, durable_at, recovered_n, killed_at>>

\* put: write_all returns Ok, logical_index += 1, the policy decides
WriterWriteRest ==
    /\ wpc = "write"
    /\ Becomes(count_write(write_all(Self, WriterRest, Len(WriterRest))))
    /\ wk' = 0
    /\ wpc' = IF should_sync(count_write(Self)) THEN "sync_data" ELSE "bind"
    /\ UNCHANGED <<hvars, given, wi, opc, target, durable_at, recovered_n, killed_at>>

\* sync: file.sync_data() returns Ok and the counters are set
WriterSyncData ==
    /\ wpc \in {"sync_data", "final_sync_data"}
    /\ Becomes(sync_counters(Self))
    /\ wpc' = "set_len"
    /\ UNCHANGED <<hvars, given, wi, wk, opc, target, durable_at, recovered_n, killed_at>>

\* update_progress_file: file.set_len(0)
WriterSetLen ==
    /\ wpc = "set_len"
    /\ Becomes([Self EXCEPT !.progress = <<>>])
    /\ wpc' = "publish"
    /\ UNCHANGED <<hvars, given, wi, wk, opc, target, durable_at, recovered_n, killed_at>>

\* update_progress_file: write!, and sync returns Ok, to put or to main
WriterPublish ==
    /\ wpc = "publish"
    /\ Becomes(sync_result(update_progress_file(Self, "ok")))
    /\ wpc' = IF wi = TOTAL_WRITES THEN "exited" ELSE "bind"
    /\ UNCHANGED <<hvars, given, wi, wk, opc, target, durable_at, recovered_n, killed_at>>

\* put: the index and pos, and the loop's next i
WriterBind ==
    /\ wpc = "bind"
    /\ Becomes(bind(Self, WriterKey(0, wi), pos, Len(WriterFrame(wi))))
    /\ wi' = wi + 1
    /\ unslept' = unslept + 1
    /\ wpc' = IF wi + 1 = TOTAL_WRITES THEN "sleeping" ELSE "write"
    /\ UNCHANGED <<opened, nputs, acked, covered, base>>
    /\ UNCHANGED <<given, wk, opc, target, durable_at, recovered_n, killed_at>>

\* the second loop of crash_writer, which only sleeps: all its rounds
WriterSleeps ==
    /\ wpc = "sleeping"
    /\ wpc' = "final_sync_data"
    /\ unslept' = 0
    /\ UNCHANGED <<opened, nputs, acked, covered, base>>
    /\ UNCHANGED <<evars, given, wi, wk, opc, target, durable_at, recovered_n, killed_at>>

\* a system call of put or sync returns an error: ? takes it to main,
\* which returns it
WriterFails ==
    /\ wpc \in {"write", "sync_data", "final_sync_data", "set_len", "publish"}
    /\ Becomes([Self EXCEPT !.ret = "Err"])
    /\ wpc' = "exited"
    /\ UNCHANGED <<hvars, given, wi, wk, opc, target, durable_at, recovered_n, killed_at>>

\* one round of wait_for_durable_progress
Poll ==
    /\ opc = "waiting"
    /\ IF ParseUsize(Trim(progress)).ok /\ ParseUsize(Trim(progress)).val >= target
       THEN durable_at' = ParseUsize(Trim(progress)).val /\ opc' = "kill"
       ELSE UNCHANGED <<durable_at, opc>>
    /\ UNCHANGED <<evars, hvars, given, wpc, wi, wk, target, recovered_n, killed_at>>

\* wait_for_durable_progress returns Err: child.kill(), and nothing is verified
Timeout ==
    /\ opc = "waiting"
    /\ killed_at' = wpc
    /\ wpc' = IF wpc = "exited" THEN "exited" ELSE "killed"
    /\ opc' = "timed_out"
    /\ UNCHANGED <<evars, hvars, given, wi, wk, target, durable_at, recovered_n>>

\* child.kill() and child.wait()
Kill ==
    /\ opc = "kill"
    /\ killed_at' = wpc
    /\ wpc' = IF wpc = "exited" THEN "exited" ELSE "killed"
    /\ opc' = "verify"
    /\ UNCHANGED <<evars, hvars, given, wi, wk, target, durable_at, recovered_n>>

\* verify_data: Engine::open in the observer, where CRASH_TEST is not set
Verify ==
    /\ opc = "verify"
    /\ Becomes(with_config(Self, Always, FALSE))
    /\ recovered_n' = verify_data(index')
    /\ opc' = "done"
    /\ UNCHANGED <<hvars, given, wpc, wi, wk, target, durable_at, killed_at>>

NextCrashTest ==
    \/ \E mode \in CrashModes, crash_point \in CrashPoints : Spawn(mode, crash_point)
    \/ WriterOpen
    \/ WriterTick
    \/ \E n \in TornSizes : WriterWritePart(n)
    \/ WriterWriteRest
    \/ WriterSyncData
    \/ WriterSetLen
    \/ WriterPublish
    \/ WriterBind
    \/ WriterSleeps
    \/ WriterFails
    \/ Poll
    \/ Timeout
    \/ Kill
    \/ Verify

SpecCrashTest == InitCrashTest /\ [][NextCrashTest]_vars

(***************************************************************************)
(* What the log holds, read the way a reader of the format reads it.       *)
(***************************************************************************)
\* the scan of the whole file from offset 0
Scan(f) == RecoverScan(f, 0, 0, <<>>)

\* a frame with key k starts at offset off of f
FrameAt(f, off, k) ==
    /\ off < Len(f)
    /\ LET r == decode(SubSeq(f, off + 1, Len(f))) IN r.ok /\ r.key = k

(***************************************************************************)
(* Claims about the engine's life on one path.                             *)
(***************************************************************************)
\* C1: when sync() has returned success durable_index = logical_index, and
\* every key whose put returned Ok before a sync that returned success is
\* present (contains_key) in every engine opened on the path afterwards.
C1_SyncedKeysRecovered ==
    /\ (opened /\ synced) => durable_index = logical_index
    /\ opened => \A k \in covered : contains_key(k)

\* C5 (I1): durable_index <= logical_index in every state of an engine, after
\* open and after every put and sync, whatever the call returned.
C5_DurableAtMostLogical == opened => durable_index <= logical_index

\* C5's case: a put returned an error on an engine that had synced before.
C5_Witness ==
    opened /\ ret = "Err" /\ 0 < durable_index /\ durable_index < logical_index

\* C6: durable_index never decreases, neither by a put or a sync nor from the
\* value one instance last held to the value recovery gives the next.
C6_DurableMonotonic == [][durable_index' >= durable_index]_vars

\* C7 (I3): between calls every index entry key -> offset is an offset of the
\* log file at which a frame with exactly that key starts. (That the frame
\* is the last one of its key only adds to this.)
C7_IndexPointsAtFrames ==
    opened => \A k \in DOMAIN index : FrameAt(file, index[k], k)

\* C8 (I4): pos is the sum of the sizes of the records of the valid prefix,
\* and after a call in which sync returned success pos is the file's length.
C8_PosIsValidLength ==
    opened => /\ pos = Scan(file).curr_pos
              /\ (synced /\ ret = "Ok") => pos = Len(file)

\* C9 (I2): between calls the bytes [0, pos) of the log decode to exactly
\* logical_index records.
C9_PrefixHoldsLogicalIndex ==
    opened => /\ pos <= Len(file)
              /\ Scan(SubSeq(file, 1, pos)).curr_pos = pos
              /\ Scan(SubSeq(file, 1, pos)).count = logical_index

(***************************************************************************)
(* Claims about an engine opened on a given log.                           *)
(***************************************************************************)
\* the records of the given log before its damaged frame
GoodCount(g) == IF g.bad = 0 THEN Len(g.recs) ELSE g.bad - 1

\* 8 + |key| + |value| + 4, the size of a record's frame
FrameSize(r) == 8 + Len(r.key) + Len(r.value) + 4

\* the offset at which frame i of the given log starts
RECURSIVE OffsetOf(_, _)
OffsetOf(g, i) == IF i = 1 THEN 0 ELSE OffsetOf(g, i - 1) + FrameSize(g.recs[i - 1])

\* the place among the first n records of the last one with key k
LastOf(g, n, k) == CHOOSE i \in 1..n : g.recs[i].key = k /\ \A j \in (i + 1)..n : g.recs[j].key # k

\* the engine is open on the given log and nothing else was done
OpenOnGiven == opened /\ given # <<>>

\* C3: after open on a log of valid frames before the first frame that does
\* not decode, the index holds exactly the keys of those frames, each bound
\* to the offset of its last frame among them, and logical_index and
\* durable_index are their number; nothing behind the bad frame is indexed.
C3_RecoversLongestValidPrefix ==
    OpenOnGiven =>
        LET n == GoodCount(given)
        IN  /\ DOMAIN index = {given.recs[i].key : i \in 1..n}
            /\ \A k \in DOMAIN index : index[k] = OffsetOf(given, LastOf(given, n, k))
            /\ logical_index = n
            /\ durable_index = n

\* C3's case: a damaged frame in the middle, valid frames before and behind it
C3_Witness ==
    /\ OpenOnGiven
    /\ 1 < given.bad /\ given.bad < Len(given.recs)
    /\ index # <<>> /\ logical_index = given.bad - 1

\* C4: after open on a valid log followed by bytes that are no frame, the
\* index is the index of the valid log alone and the file is the valid log;
\* open leaves a log that is valid to its end as it is.
C4_TornTailTruncated ==
    OpenOnGiven =>
        LET valid == SubSeq(GivenLog(given), 1, OffsetOf(given, GoodCount(given) + 1))
        IN  /\ index = recover(new_engine([Self EXCEPT !.file = valid], Always)).index
            /\ file = valid
            /\ Len(file) = OffsetOf(given, GoodCount(given) + 1)
            /\ (given.bad = 0 /\ given.tail = <<>>) => file = GivenLog(given)

\* C4's case: bytes that are no frame followed a valid log, and are gone
C4_Witness ==
    /\ OpenOnGiven
    /\ given.bad = 0 /\ given.tail # <<>> /\ Len(given.recs) > 0
    /\ Len(file) < Len(GivenLog(given))
    /\ index # <<>>

(***************************************************************************)
(* Claims about the Batch(N) policy.                                       *)
(***************************************************************************)
\* an engine opened with Batch(N) on c records has made k calls since, all
\* of them puts that returned Ok
BatchRun == opened /\ sync_mode.kind = "Batch" /\ base # <<>>

\* C10: under Batch(N), N >= 1, after k successful puts and nothing else on
\* an engine opened on c records, logical_index = c + k and durable_index =
\* c + N * floor(k / N); an explicit sync that succeeds then makes
\* durable_index c + k.
C10_BatchSyncsEveryN ==
    [][/\ BatchRun' =>
            /\ logical_index' = base'[1] + base'[2]
            /\ durable_index' = base'[1] + sync_mode'.arg * (base'[2] \div sync_mode'.arg)
       /\ (BatchRun /\ opened' /\ base' = <<>> /\ synced') =>
            durable_index' = base[1] + base[2]]_vars

\* C10's case: Batch(2) opened on 1 record, 3 puts: the second one synced
C10_Witness ==
    /\ BatchRun /\ sync_mode = Batch(2) /\ base = <<1, 3>>
    /\ logical_index = 4 /\ durable_index = 3 /\ write_count = 1

(***************************************************************************)
(* Claims about the crash test.                                            *)
(***************************************************************************)
\* C2: when the observer has read D from the progress file, killed the
\* writer wherever it was, and counted the prefix key_0..key_{n-1} the
\* reopened engine recovers, n >= D.
C2_RecoversAtLeastPublished == opc = "done" => recovered_n >= durable_at

\* C2's case: D = 1 was read, the writer was killed inside write_all of a
\* later put with a part of the frame written, and 2 keys are recovered
C2_Witness ==
    /\ opc = "done" /\ killed_at = "write" /\ wk > 0
    /\ durable_at = 1 /\ recovered_n = 2 /\ pos < cursor

(***************************************************************************)
(* Claims about the Periodic(D) policy.                                    *)
(***************************************************************************)
\* a step that is a call of put on an engine
PutStep == opened /\ opened' /\ nputs' = nputs + 1

\* the put of the step wrote its frame
WriteOk == logical_index' = logical_index + 1

\* the put of the step called sync: it returned Ok inside it, or the put
\* returned its error after the write
Triggered == synced' \/ (WriteOk /\ ret' = "Err")

\* C11: under Periodic(D) a put calls sync exactly when now - last_sync >= D
\* at its decision; last_sync is the time of open, then of the last sync that
\* returned Ok.
C11_PeriodicSyncsWhenElapsed ==
    [][/\ (PutStep /\ sync_mode.kind = "Periodic" /\ WriteOk) =>
            /\ Triggered <=> (now - last_sync >= sync_mode.arg)
            /\ last_sync' = IF synced' THEN now ELSE last_sync
            /\ durable_index' = IF synced' THEN logical_index' ELSE durable_index
       /\ (~opened /\ opened') => last_sync' = now']_vars

\* C11's case, 5 ms a tick: Periodic(2), a put before 2 ticks have passed, a
\* put at tick 3 that synced, a put at tick 4 that did not
C11_Witness ==
    /\ opened /\ sync_mode = Periodic(2) /\ base = <<0, 3>>
    /\ now = 4 /\ last_sync = 3
    /\ logical_index = 3 /\ durable_index = 2

(***************************************************************************)
(* Claims about the sizes of keys and values.                              *)
(***************************************************************************)
\* what the put of the step wrote to the file
Written == SubSeq(file', cursor + 1, cursor')

\* C12: a put of a key over the key cap or of a value over the value cap
\* writes nothing and counts nothing; so a put that wrote a frame and counted
\* it wrote a key and a value within the caps.
C12_OversizeRejected ==
    [][(PutStep /\ WriteOk) =>
            /\ decode(Written).ok
            /\ Len(decode(Written).key) <= KeyCap
            /\ Len(decode(Written).value) <= ValCap]_vars

(***************************************************************************)
(* Claims about calls that return an error.                                *)
(***************************************************************************)
\* the put of the step returned an error and did not write a whole frame:
\* its write_all failed
WriteFailed == PutStep /\ ret' = "Err" /\ ~decode(Written).ok

SyncStep == opened /\ opened' /\ nputs' = nputs /\ now' = now

\* C14: when sync returns an error, called by the caller or by put,
\* durable_index, write_count and last_sync are as they were before sync was
\* called; durable_index is raised only by a sync that returns Ok.
C14_FailedSyncChangesNothing ==
    [][/\ (SyncStep /\ ret' = "Err") =>
            UNCHANGED <<durable_index, write_count, last_sync>>
       /\ (PutStep /\ WriteOk /\ ret' = "Err") =>
            /\ UNCHANGED <<durable_index, last_sync>>
            /\ write_count' = count_write(Self).write_count
       /\ (opened /\ opened' /\ durable_index' > durable_index) => synced']_vars

(***************************************************************************)
(* Claims about the progress file.                                         *)
(***************************************************************************)
\* what a reader of the progress file gets now: content.trim().parse()
ProgressRead == ParseUsize(Trim(progress))

\* the writer's open has returned, or its sync has returned Ok
Published ==
    \/ wpc = "open" /\ wpc' = "write"
    \/ wpc = "publish" /\ wpc' \in {"bind", "exited"} /\ ret' = "Ok"

Decoded == file # <<>> /\ (pos # 0 \/ ret = "Err")

\* C16: decode(encode(key, value)), also with bytes after the frame, returns
\* the key, the value and the size 8 + |key| + |value| + 4, for every key
\* and value within the caps, the empty ones included.
C16_RoundTrip ==
    Decoded =>
        /\ ret = "Ok"
        /\ DOMAIN index = {given.recs[1].key}
        /\ decode(file).value = given.recs[1].value
        /\ pos = 8 + Len(given.recs[1].key) + Len(given.recs[1].value) + 4
        /\ pos = Len(encode(given.recs[1].key, given.recs[1].value))

\* C16's case: an empty key and an empty value, bytes after the frame
C16_Witness ==
    /\ Decoded /\ ret = "Ok" /\ pos = 12
    /\ given.recs[1].key = <<>> /\ given.recs[1].value = <<>>
    /\ Len(file) > 12

(***************************************************************************)
(* Claims about what a power loss leaves.                                  *)
(***************************************************************************)
\* C17: in every state of an engine, whatever a power loss leaves of the
\* file (the data-synced bytes and possibly some of the rest), an engine
\* opened on it recovers at least durable_index records.
C17_DurableSurvivesCrash ==
    opened => \A image \in CrashImages : Scan(image).count >= durable_index

\* an engine has just been opened on the path
JustOpened == opened /\ base # <<>> /\ base[2] = 0

\* C18: when a put failed in its file write, and puts that returned Ok and a
\* sync that returned Ok followed, an engine opened afterwards has the
\* record of every key that a put returned Ok for before that sync.
C18_TornFrameLosesNothing ==
    (JustOpened /\ wk > 0) =>
        \A k \in covered : contains_key(k) /\ FrameAt(file, index[k], k)

(***************************************************************************)
(* Claims about syncs called by the caller.                                *)
(***************************************************************************)
\* C19: a sync called by the caller that returns Ok resets the policy, also
\* when the policy would not have synced: write_count is 0 and last_sync is
\* now; so under Batch(N) a put calls sync exactly when it is the N-th put
\* written since the last sync that returned Ok (durable_index records were
\* written up to that sync), and under Periodic(D) exactly when D has passed
\* since it.
C19_ExplicitSyncResetsPolicy ==
    [][/\ (SyncStep /\ ret' = "Ok") =>
            /\ write_count' = 0
            /\ last_sync' = now
            /\ durable_index' = logical_index
       /\ (PutStep /\ WriteOk /\ sync_mode.kind = "Batch") =>
            (Triggered <=> (logical_index' - durable_index >= sync_mode.arg))
       /\ (PutStep /\ WriteOk /\ sync_mode.kind = "Periodic") =>
            (Triggered <=> (now - last_sync >= sync_mode.arg))]_vars

\* C19's case under Batch(2): a put, a sync by the caller, and a second put,
\* which did not sync
C19_Witness ==
    /\ opened /\ sync_mode = Batch(2) /\ base = <<>> /\ ret = "Ok"
    /\ nputs = 2 /\ logical_index = 2 /\ durable_index = 1 /\ write_count = 1

(***************************************************************************)
(* Claims about the crash writer's pace.                                   *)
(***************************************************************************)
\* C20: the crash writer sleeps between its puts at least once every
\* SleepEvery puts, and its final sync comes after its last put.
C20_WriterYields ==
    /\ unslept <= SleepEvery
    /\ wpc = "final_sync_data" => wi = TOTAL_WRITES

(***************************************************************************)
(* Claims about the records a policy leaves unsynced.                      *)
(***************************************************************************)
\* the puts the engine has counted and not synced
Unsynced == logical_index - durable_index

\* the most records the policy of the engine leaves unsynced between calls
WindowBound ==
    (opened /\ sync_mode.kind # "Periodic") =>
        Unsynced <= (IF sync_mode.kind = "Batch" THEN sync_mode.arg - 1 ELSE 0)

\* the step is a call in which sync returned an error: a sync by the caller,
\* or a put that had written its frame
SyncFails == opened /\ opened' /\ ret' = "Err" /\ (PutStep => WriteOk)

\* C21: between calls, logical_index - durable_index is 0 under Always and
\* at most N - 1 under Batch(N), N >= 1, whatever the order of puts and syncs
\* by the caller and whatever count was recovered at open, as long as no sync
\* has failed: the bound holds at open, and every call in which no sync fails
\* keeps it.
C21_LossWindow ==
    [][/\ (~opened /\ opened') => WindowBound'
       /\ (WindowBound /\ ~SyncFails) => WindowBound']_vars

\* C21's case: Batch(2) opened on one recovered record, one put since: one
\* record is unsynced, the most Batch(2) allows
C21_Witness ==
    /\ opened /\ sync_mode = Batch(2) /\ ret = "Ok"
    /\ logical_index = 2 /\ durable_index = 1 /\ write_count = 1

====
